---------------------------- MODULE Spec2Model ----------------------------
(***************************************************************************)
(* HTML -> Markdown converter (4eta/html_to_md).                           *)
(*                                                                         *)
(* Two builds of class HtmlToMarkdownConverter are modelled:               *)
(*   - the scoped converter (src/unnamed/part_001): sanitize, extract the  *)
(*     section between two text markers, render the extracted container;   *)
(*   - the plain converter (src/js/converter.js): sanitize, render body.   *)
(*                                                                         *)
(* A string is a sequence of one-character strings.  A DOM tree is the     *)
(* sequence of its nodes in document (pre-)order; each node carries its    *)
(* depth, so a subtree is a contiguous segment of the sequence.  A node is *)
(*   [id, depth, tag, text, attrs]                                         *)
(* where tag = "#text" marks a text node (text = its data), and attrs is   *)
(* a set of <<name, value>> pairs.  id is the node's identity; a clone     *)
(* made by cloneNode(true) keeps the id of the node it was cloned from.    *)
(***************************************************************************)
EXTENDS Integers, Sequences, FiniteSets, TLC

VARIABLES
    html,              \* the tree DOMParser returned for the input (never changed)
    doc,               \* the live document tree (mutated in place by the sanitizer)
    pc,                \* position inside convertHtmlToMarkdown
    startElement,      \* id of extractSpecificSection's startElement, 0 = null
    endElement,        \* id of extractSpecificSection's endElement, 0 = null
    extractedContent,  \* the container extractSpecificSection returned, <<>> = null
    outcome,           \* [kind, value]: how convertHtmlToMarkdown ended
    dragOver,          \* dropZone has the class drag-over
    loading,           \* the loading indicator is displayed
    outputShown,       \* outputSection has the class show
    status,            \* the status element: [msg, type, show]; msg numbers the
                       \* showStatus call that wrote its text, 0 = none yet
    timers,            \* the pending auto-hide timeouts in firing order, each
                       \* the number of the showStatus call that scheduled it
    reads,             \* processFile calls suspended at await file.text()
    copies,            \* copyToClipboard calls suspended at await writeText()
    msgs,              \* showStatus calls so far
    lastHide           \* history: [msg, by], the last message hideStatus took
                       \* the class show from, and the timer that called it
                       \* (by = 0: processFile called it, or nothing yet)

conv == <<html, doc, pc, startElement, endElement, extractedContent, outcome>>
ui == <<dragOver, loading, outputShown, status, timers, reads, copies, msgs, lastHide>>
vars == <<conv, ui>>

(***************************************************************************)
(* Bounds of the model.                                                    *)
(***************************************************************************)
MaxNodes == 3          \* nodes below head and body in a document
MaxListNodes == 4      \* the same, in the documents of SpecList
MaxTableNodes == 6     \* the same, in the documents of SpecTable
MaxMessages == 3       \* showStatus calls in a behaviour of SpecUI

\* ------------------------------------------------------------------ strings

Whitespace == {" ", "\n", "\t"}

RECURSIVE TrimStart(_)
TrimStart(s) ==
    IF s # <<>> /\ Head(s) \in Whitespace THEN TrimStart(Tail(s)) ELSE s

RECURSIVE TrimEnd(_)
TrimEnd(s) ==
    IF s # <<>> /\ s[Len(s)] \in Whitespace
    THEN TrimEnd(SubSeq(s, 1, Len(s) - 1)) ELSE s

\* String.prototype.trim
Trim(s) == TrimEnd(TrimStart(s))

\* String.prototype.includes
Includes(s, m) ==
    \E i \in 0..(Len(s) - Len(m)) : SubSeq(s, i + 1, i + Len(m)) = m

\* the markers, abbreviated to two characters each so that a marker can
\* straddle two text nodes: "T:" for the start marker (part_001:119), "PS"
\* for "Problem Statement" and "QB", "QD" for its two aliases (part_001:141-143)
StartMarker == <<"T", ":">>
EndMarkers == {<<"P", "S">>, <<"Q", "B">>, <<"Q", "D">>}

\* the warning convertHtmlToMarkdown returns when no section was extracted
Warning == <<"W", "A", "R", "N">>

\* --------------------------------------------------------------- DOM trees

Null == <<>>

RECURSIVE SortedSeq(_)
SortedSeq(S) ==
    IF S = {} THEN <<>>
    ELSE LET m == CHOOSE x \in S : \A y \in S : x <= y
         IN  <<m>> \o SortedSeq(S \ {m})

IsElement(t, i) == t[i].tag # "#text"

\* index of the last node of the subtree rooted at i
SubtreeEnd(t, i) ==
    CHOOSE j \in i..Len(t) :
        /\ \A k \in (i + 1)..j : t[k].depth > t[i].depth
        /\ (j = Len(t) \/ t[j + 1].depth <= t[i].depth)

\* index of the parent node, 0 when i is the root (the root element's
\* parent is the Document, which is no element: parentElement is null)
Parent(t, i) ==
    LET above == {j \in 1..(i - 1) : t[j].depth < t[i].depth}
    IN  IF above = {} THEN 0 ELSE CHOOSE j \in above : \A k \in above : k <= j

\* Node.childNodes, as the sequence of the children's indices
ChildNodes(t, i) ==
    SortedSeq({j \in (i + 1)..SubtreeEnd(t, i) : t[j].depth = t[i].depth + 1})

\* Element.children: the element children only
Children(t, i) ==
    SortedSeq({j \in (i + 1)..SubtreeEnd(t, i) :
                  t[j].depth = t[i].depth + 1 /\ IsElement(t, j)})

\* Node.textContent: the data of the text nodes of the subtree, concatenated
RECURSIVE ConcatText(_, _, _)
ConcatText(t, i, j) ==
    IF i > j THEN <<>>
    ELSE (IF IsElement(t, i) THEN <<>> ELSE t[i].text) \o ConcatText(t, i + 1, j)

TextContent(t, i) == ConcatText(t, i, SubtreeEnd(t, i))

\* Element.querySelectorAll(tags): the descendant elements of i with a tag
\* in tags, in document order
QuerySelectorAll(t, i, tags) ==
    SortedSeq({j \in (i + 1)..SubtreeEnd(t, i) : t[j].tag \in tags})

\* Document.querySelectorAll(tags): every element of the document with a
\* tag in tags (the root element included), in document order
DocQuerySelectorAll(t, tags) ==
    SortedSeq({j \in 1..Len(t) : t[j].tag \in tags})

\* Document.querySelectorAll('*')
AllElements(t) == SortedSeq({j \in 1..Len(t) : IsElement(t, j)})

\* Element.getAttribute: [isNull, str]
GetAttribute(t, i, name) ==
    IF \E p \in t[i].attrs : p[1] = name
    THEN [isNull |-> FALSE,
          str |-> (CHOOSE p \in t[i].attrs : p[1] = name)[2]]
    ELSE [isNull |-> TRUE, str |-> <<>>]

\* index of the node with identity id in t, 0 when t does not hold it
IndexOf(t, id) ==
    IF \E k \in 1..Len(t) : t[k].id = id
    THEN CHOOSE k \in 1..Len(t) : t[k].id = id
    ELSE 0

\* --------------------------------------------------------------- sanitizer

UnwantedSelectors == <<"script", "style", "meta", "link", "noscript">>

\* el.remove(): the subtree of the node with identity id leaves the tree;
\* a node that already left with a removed ancestor changes nothing in t
RemoveNode(t, id) ==
    LET k == IndexOf(t, id)
    IN  IF k = 0 THEN t
        ELSE SubSeq(t, 1, k - 1) \o SubSeq(t, SubtreeEnd(t, k) + 1, Len(t))

\* NodeList.forEach(el => el.remove()) over a static list of identities
RECURSIVE RemoveAll(_, _)
RemoveAll(t, ids) ==
    IF ids = <<>> THEN t ELSE RemoveAll(RemoveNode(t, Head(ids)), Tail(ids))

RECURSIVE RemoveSelectors(_, _)
RemoveSelectors(t, sels) ==
    IF sels = <<>> THEN t
    ELSE LET found == DocQuerySelectorAll(t, {Head(sels)})
             ids == [k \in 1..Len(found) |-> t[found[k]].id]
         IN  RemoveSelectors(RemoveAll(t, ids), Tail(sels))

\* a variant that removes only the unwanted children of head and body
removeUnwantedElementsShallow(t) ==
    LET unwanted == {UnwantedSelectors[k] : k \in 1..Len(UnwantedSelectors)}
        found == SortedSeq({j \in 1..Len(t) : t[j].tag \in unwanted /\ t[j].depth <= 2})
    IN  RemoveAll(t, [k \in 1..Len(found) |-> t[found[k]].id])

removeUnwantedElements(t) == RemoveSelectors(t, UnwantedSelectors)

\* --------------------------------------------------------- range extractor

\* first element of list (indices, in document order) whose textContent
\* includes one of the markers, 0 = none
RECURSIVE FirstIncluding(_, _, _)
FirstIncluding(t, list, markers) ==
    IF list = <<>> THEN 0
    ELSE LET textContent == TextContent(t, Head(list))
         IN  IF textContent # <<>> /\ \E m \in markers : Includes(textContent, m)
             THEN Head(list)
             ELSE FirstIncluding(t, Tail(list), markers)

\* a variant that takes the innermost element including the marker: the
\* first one none of whose descendant elements includes it
FindStartElementInnermost(t) ==
    LET quals == {j \in 1..Len(t) :
                     /\ IsElement(t, j)
                     /\ Includes(TextContent(t, j), StartMarker)
                     /\ \A k \in (j + 1)..SubtreeEnd(t, j) :
                           ~(IsElement(t, k) /\ Includes(TextContent(t, k), StartMarker))}
    IN  IF quals = {} THEN 0 ELSE CHOOSE j \in quals : \A k \in quals : j <= k

\* the first loop of extractSpecificSection
FindStartElement(t) == FirstIncluding(t, AllElements(t), {StartMarker})

\* the second loop: only the elements after startElement in allElements
FindEndElement(t, s) ==
    LET all == AllElements(t)
        after == SelectSeq(all, LAMBDA j : j > s)
    IN  FirstIncluding(t, after, EndMarkers)

\* Element.nextElementSibling, 0 = null
NextElementSibling(t, i) ==
    LET p == Parent(t, i)
        sibs == IF p = 0 THEN {}
                ELSE {j \in (i + 1)..SubtreeEnd(t, p) :
                         t[j].depth = t[i].depth /\ IsElement(t, j)}
    IN  IF sibs = {} THEN 0 ELSE CHOOSE j \in sibs : \A k \in sibs : j <= k

RECURSIVE ClimbToNext(_, _)
ClimbToNext(t, parent) ==
    IF parent = 0 THEN 0
    ELSE IF NextElementSibling(t, parent) # 0 THEN NextElementSibling(t, parent)
    ELSE ClimbToNext(t, Parent(t, parent))

getNextElement(t, i) ==
    IF NextElementSibling(t, i) # 0 THEN NextElementSibling(t, i)
    ELSE ClimbToNext(t, Parent(t, i))

\* the while loop of extractElementsRange: the elements pushed after the
\* start element, as indices
RECURSIVE WalkRange(_, _, _)
WalkRange(t, nextElement, e) ==
    IF nextElement # 0 /\ nextElement # e
    THEN <<nextElement>> \o WalkRange(t, getNextElement(t, nextElement), e)
    ELSE <<>>

\* a variant that does not push the clone of the start element first
ElementsToIncludeAfterStart(t, s, e) == WalkRange(t, getNextElement(t, s), e)

\* elementsToInclude, as the indices of the elements that are cloned
ElementsToInclude(t, s, e) == <<s>> \o WalkRange(t, getNextElement(t, s), e)

\* cloneNode(true) of element i, placed at depth 1 (a child of the container)
CloneNode(t, i) ==
    [k \in 1..(SubtreeEnd(t, i) - i + 1) |->
        [t[i + k - 1] EXCEPT !.depth = t[i + k - 1].depth - t[i].depth + 1]]

RECURSIVE CloneAll(_, _)
CloneAll(t, list) ==
    IF list = <<>> THEN <<>>
    ELSE CloneNode(t, Head(list)) \o CloneAll(t, Tail(list))

\* document.createElement('div'): a detached element, identity 0
CreateDiv == <<[id |-> 0, depth |-> 0, tag |-> "div", text |-> <<>>, attrs |-> {}]>>

\* a variant that appends the collected elements themselves, not clones:
\* appendChild moves each of them out of the document
extractElementsRangeMoving(t, s, e) ==
    LET list == ElementsToInclude(t, s, e)
        container == CreateDiv \o CloneAll(t, list)
    IN  [container |-> container,
         source |-> RemoveAll(t, [k \in 1..Len(list) |-> t[list[k]].id])]

\* extractElementsRange(startElement, endElement) on tree t: the container
\* it returns (Null when it has no children) and the tree it leaves
extractElementsRange(t, s, e) ==
    LET container == CreateDiv \o CloneAll(t, ElementsToInclude(t, s, e))
    IN  [container |-> IF Len(Children(container, 1)) > 0 THEN container ELSE Null,
         source |-> t]

\* extractSpecificSection(doc): the start and end elements it found (as
\* indices, 0 = null), the container it returns and the tree it leaves
extractSpecificSection(t) ==
    LET s == FindStartElement(t)
        e == IF s = 0 THEN 0 ELSE FindEndElement(t, s)
    IN  IF s = 0 \/ e = 0
        THEN [start |-> s, end |-> e, container |-> Null, source |-> t]
        ELSE LET r == extractElementsRange(t, s, e)
             IN  [start |-> s, end |-> e, container |-> r.container, source |-> r.source]

\* ----------------------------------------------------------- markdown emitter

\* the backtick character (written by name: a string of the module cannot
\* hold it)
Backtick == "BACKTICK"

RECURSIVE Repeat(_, _)
Repeat(s, n) == IF n = 0 THEN <<>> ELSE s \o Repeat(s, n - 1)

\* Array.prototype.join
RECURSIVE Join(_, _)
Join(parts, sep) ==
    IF parts = <<>> THEN <<>>
    ELSE IF Len(parts) = 1 THEN parts[1]
    ELSE parts[1] \o sep \o Join(Tail(parts), sep)

\* the decimal digits of a number, as `${index + 1}` formats it
Digit(d) == <<"0", "1", "2", "3", "4", "5", "6", "7", "8", "9">>[d + 1]

RECURSIVE NumberToString(_)
NumberToString(n) ==
    IF n < 10 THEN <<Digit(n)>> ELSE NumberToString(n \div 10) \o <<Digit(n % 10)>>

\* s.replace(/\n/g, " ")
ReplaceNewlines(s) == [k \in 1..Len(s) |-> IF s[k] = "\n" THEN " " ELSE s[k]]

\* truthiness of a value getAttribute returned: null and "" are falsy
Truthy(v) == ~v.isNull /\ v.str # <<>>

HeadingLevel(tag) ==
    CASE tag = "h1" -> 1 [] tag = "h2" -> 2 [] tag = "h3" -> 3
      [] tag = "h4" -> 4 [] tag = "h5" -> 5 [] tag = "h6" -> 6 [] OTHER -> 0

RECURSIVE processElement(_, _)
RECURSIVE ProcessNodes(_, _)
RECURSIVE convertElementToMarkdown(_, _)
RECURSIVE processListItems(_, _, _, _)
RECURSIVE ListItems(_, _, _, _, _)
RECURSIVE processTable(_, _)
RECURSIVE TableRows(_, _, _)
RECURSIVE CellContents(_, _)

\* the loop of processElement over element.childNodes
ProcessNodes(t, nodes) ==
    IF nodes = <<>> THEN <<>>
    ELSE LET node == Head(nodes)
             piece == IF ~IsElement(t, node)
                      THEN LET text == Trim(t[node].text)
                           IN  IF text # <<>> THEN text \o <<" ">> ELSE <<>>
                      ELSE convertElementToMarkdown(t, node)
         IN  piece \o ProcessNodes(t, Tail(nodes))

processElement(t, i) == ProcessNodes(t, ChildNodes(t, i))

\* the early return of convertElementToMarkdown: an element with no text
\* renders as '' unless it is a br, hr or img
SkipsElement(tagName, text) ==
    text = <<>> /\ tagName \notin {"br", "hr", "img"}

\* a variant that writes every heading with one '#'
HeadingMarkdownFlat(level, text) ==
    <<"\n", "#", " ">> \o text \o <<"\n", "\n">>

\* cases h1..h6
HeadingMarkdown(level, text) ==
    <<"\n">> \o Repeat(<<"#">>, level) \o <<" ">> \o text \o <<"\n", "\n">>

\* a variant that tests the presence of the attribute, not its value
LinkMarkdownIfPresent(text, href) ==
    IF ~href.isNull
    THEN <<"[">> \o text \o <<"]", "(">> \o href.str \o <<")">>
    ELSE text

\* case a: href ? `[${text}](${href})` : text
LinkMarkdown(text, href) ==
    IF Truthy(href)
    THEN <<"[">> \o text \o <<"]", "(">> \o href.str \o <<")">>
    ELSE text

\* case img: alt = getAttribute('alt') || ''
ImageMarkdown(src, alt) ==
    IF Truthy(src)
    THEN <<"!", "[">> \o (IF Truthy(alt) THEN alt.str ELSE <<>>)
         \o <<"]", "(">> \o src.str \o <<")">>
    ELSE <<>>

convertElementToMarkdown(t, i) ==
    LET tagName == t[i].tag
        text == Trim(TextContent(t, i))
    IN  IF SkipsElement(tagName, text) THEN <<>>
        ELSE CASE HeadingLevel(tagName) > 0 ->
               HeadingMarkdown(HeadingLevel(tagName), text)
          [] tagName = "p" -> <<"\n">> \o processElement(t, i) \o <<"\n", "\n">>
          [] tagName = "br" -> <<"\n">>
          [] tagName = "hr" -> <<"\n", "-", "-", "-", "\n", "\n">>
          [] tagName \in {"strong", "b"} -> <<"*", "*">> \o text \o <<"*", "*">>
          [] tagName \in {"em", "i"} -> <<"*">> \o text \o <<"*">>
          [] tagName = "code" -> <<Backtick>> \o text \o <<Backtick>>
          [] tagName = "var" -> <<"$">> \o text \o <<"$">>
          [] tagName = "pre" ->
               LET found == QuerySelectorAll(t, i, {"code"})
                   codeText == IF found # <<>> THEN TextContent(t, found[1]) ELSE text
               IN  <<"\n", Backtick, Backtick, Backtick, "\n">> \o codeText
                   \o <<"\n", Backtick, Backtick, Backtick, "\n", "\n">>
          [] tagName = "blockquote" ->
               <<"\n", ">", " ">> \o processElement(t, i) \o <<"\n", "\n">>
          [] tagName = "a" -> LinkMarkdown(text, GetAttribute(t, i, "href"))
          [] tagName = "img" ->
               ImageMarkdown(GetAttribute(t, i, "src"), GetAttribute(t, i, "alt"))
          [] tagName = "ul" ->
               <<"\n">> \o processListItems(t, i, <<"-", " ">>, FALSE) \o <<"\n">>
          [] tagName = "ol" ->
               <<"\n">> \o processListItems(t, i, <<>>, TRUE) \o <<"\n">>
          [] tagName = "li" -> processElement(t, i)
          [] tagName = "table" -> processTable(t, i)
          [] tagName \in {"div", "span", "section", "article"} -> processElement(t, i)
          [] OTHER -> processElement(t, i)

\* items.map((item, index) => ...) of processListItems
ListItems(t, items, index, prefix, isOrdered) ==
    IF index > Len(items) THEN <<>>
    ELSE LET itemPrefix == IF isOrdered THEN NumberToString(index) \o <<".", " ">> ELSE prefix
         IN  <<itemPrefix \o Trim(processElement(t, items[index]))>>
             \o ListItems(t, items, index + 1, prefix, isOrdered)

\* a variant that takes every li below the list, not only its children
processListItemsDeep(t, i, prefix, isOrdered) ==
    Join(ListItems(t, QuerySelectorAll(t, i, {"li"}), 1, prefix, isOrdered), <<"\n">>)

processListItems(t, i, prefix, isOrdered) ==
    LET items == SelectSeq(Children(t, i), LAMBDA c : t[c].tag = "li")
    IN  Join(ListItems(t, items, 1, prefix, isOrdered), <<"\n">>)

\* cells.map(cell => processElement(cell).trim().replace(/\n/g, " "))
CellContents(t, cells) ==
    IF cells = <<>> THEN <<>>
    ELSE <<ReplaceNewlines(Trim(processElement(t, Head(cells))))>>
         \o CellContents(t, Tail(cells))

\* a variant that adds the separator after every row that holds a th
NeedsSeparatorAnyRow(t, row, rowIndex) ==
    QuerySelectorAll(t, row, {"th"}) # <<>>

\* rowIndex === 0 && row.querySelector('th'), rows counted from 1 here
NeedsSeparator(t, row, rowIndex) ==
    rowIndex = 1 /\ QuerySelectorAll(t, row, {"th"}) # <<>>

\* rows.forEach((row, rowIndex) => ...) of processTable
TableRows(t, rows, rowIndex) ==
    IF rowIndex > Len(rows) THEN <<>>
    ELSE LET row == rows[rowIndex]
             cells == QuerySelectorAll(t, row, {"td", "th"})
             line == <<"|", " ">> \o Join(CellContents(t, cells), <<" ", "|", " ">>)
                     \o <<" ", "|", "\n">>
             separator ==
                 IF NeedsSeparator(t, row, rowIndex)
                 THEN <<"|", " ">>
                      \o Join([k \in 1..Len(cells) |-> <<"-", "-", "-">>], <<" ", "|", " ">>)
                      \o <<" ", "|", "\n">>
                 ELSE <<>>
         IN  line \o separator \o TableRows(t, rows, rowIndex + 1)

processTable(t, i) ==
    LET rows == QuerySelectorAll(t, i, {"tr"})
    IN  IF Len(rows) = 0 THEN <<>>
        ELSE <<"\n">> \o TableRows(t, rows, 1) \o <<"\n">>

\* --------------------------------------------------- parsed documents (input)

\* Trees DOMParser.parseFromString(html, 'text/html') can return: the root
\* is html with the children head and body; no two text nodes are adjacent;
\* void elements and text nodes have no children; script, style and title
\* hold text only; head holds metadata elements only; a table's rows sit in
\* a tbody and its cells in rows; p, headings and a do not nest in
\* themselves.

VoidTags == {"#text", "img", "br", "hr", "meta", "link"}
RawTextTags == {"script", "style", "title"}
HeadTags == {"title", "meta", "link", "style", "script", "noscript"}
HeadingTags == {"h1", "h2", "h3", "h4", "h5", "h6"}
BlockTags == HeadingTags \cup {"p", "div", "ul", "ol", "li", "table", "blockquote"}

Fits(parentTag, tag) ==
    /\ parentTag \notin VoidTags
    /\ parentTag \in RawTextTags => tag = "#text"
    /\ parentTag = "head" => tag \in HeadTags
    /\ parentTag = "table" <=> tag = "tbody"
    /\ parentTag = "tbody" <=> tag = "tr"
    /\ parentTag = "tr" <=> tag \in {"td", "th"}
    /\ parentTag = "p" => tag \notin BlockTags
    /\ parentTag \in HeadingTags => tag \notin BlockTags
    /\ parentTag = "a" => tag # "a"
    /\ tag \notin {"html", "head", "body"}

Node(kind, d) ==
    [id |-> 0, depth |-> d, tag |-> kind.tag, text |-> kind.text, attrs |-> kind.attrs]

Elem(tag) == [tag |-> tag, text |-> <<>>, attrs |-> {}]
ElemWith(tag, attrs) == [tag |-> tag, text |-> <<>>, attrs |-> attrs]
Text(data) == [tag |-> "#text", text |-> data, attrs |-> {}]

\* the forests f extended by one more node, in document order, below an
\* element with tag top whose children have depth base
Extensions(f, kinds, base, top) ==
    LET last == IF f = <<>> THEN base - 1 ELSE f[Len(f)].depth
        ParentTag(d) ==
            IF d = base THEN top
            ELSE LET up == {j \in 1..Len(f) : f[j].depth = d - 1}
                 IN  f[CHOOSE j \in up : \A k \in up : k <= j].tag
    IN  {Append(f, Node(kind, d)) : <<kind, d>> \in
            {x \in kinds \X (base..(last + 1)) :
                /\ Fits(ParentTag(x[2]), x[1].tag)
                /\ x[1].tag = "#text" =>
                     ~(f # <<>> /\ f[Len(f)].tag = "#text" /\ f[Len(f)].depth = x[2])}}

\* the forests of exactly n nodes
RECURSIVE ForestsOf(_, _, _, _)
ForestsOf(kinds, n, base, top) ==
    IF n = 0 THEN {<<>>}
    ELSE UNION {Extensions(f, kinds, base, top) : f \in ForestsOf(kinds, n - 1, base, top)}

Forests(kinds, n, base, top) == UNION {ForestsOf(kinds, k, base, top) : k \in 0..n}

WithIds(t) == [k \in 1..Len(t) |-> [t[k] EXCEPT !.id = k]]

\* the documents with at most n nodes below head and body together
Documents(headKinds, bodyKinds, n) ==
    {WithIds(<<Node(Elem("html"), 0), Node(Elem("head"), 1)>> \o h
             \o <<Node(Elem("body"), 1)>> \o b) :
        <<h, b>> \in {x \in Forests(headKinds, n, 2, "head") \X Forests(bodyKinds, n, 2, "body") :
                         Len(x[1]) + Len(x[2]) <= n}}

\* ------------------------------------------------------------------ actions

NoOutcome == [kind |-> "none", value |-> <<>>]

\* the page after new HtmlToMarkdownConverter(): nothing shown, no timer
InitPage ==
    /\ dragOver = FALSE
    /\ loading = FALSE
    /\ outputShown = FALSE
    /\ status = [msg |-> 0, type |-> "none", show |-> FALSE]
    /\ timers = <<>>
    /\ reads = 0
    /\ copies = 0
    /\ msgs = 0
    /\ lastHide = [msg |-> 0, by |-> 0]

InitWith(docs) ==
    /\ html \in docs
    /\ doc = html
    /\ pc = "parsed"
    /\ startElement = 0
    /\ endElement = 0
    /\ extractedContent = Null
    /\ outcome = NoOutcome
    /\ InitPage

\* this.removeUnwantedElements(doc)
Sanitize ==
    /\ pc = "parsed"
    /\ doc' = removeUnwantedElements(doc)
    /\ pc' = "sanitized"
    /\ UNCHANGED <<html, startElement, endElement, extractedContent, outcome, ui>>

\* const extractedContent = this.extractSpecificSection(doc)
Extract ==
    /\ pc = "sanitized"
    /\ LET r == extractSpecificSection(doc)
       IN  /\ startElement' = IF r.start = 0 THEN 0 ELSE doc[r.start].id
           /\ endElement' = IF r.end = 0 THEN 0 ELSE doc[r.end].id
           /\ extractedContent' = r.container
           /\ doc' = r.source
    /\ pc' = "extracted"
    /\ UNCHANGED <<html, outcome, ui>>

\* a variant without the null test: processElement(null) raises a TypeError,
\* which the catch clause turns into the thrown Error
ConversionResultUnchecked(extracted) ==
    IF extracted = Null
    THEN [kind |-> "threw", value |-> <<"E", "R", "R">>]
    ELSE [kind |-> "returned", value |-> Trim(processElement(extracted, 1))]

\* the end of the scoped convertHtmlToMarkdown: the warning when nothing
\* was extracted, else the trimmed rendering of the container
ConversionResult(extracted) ==
    IF extracted = Null
    THEN [kind |-> "returned", value |-> Warning]
    ELSE [kind |-> "returned", value |-> Trim(processElement(extracted, 1))]

Return ==
    /\ pc = "extracted"
    /\ outcome' = ConversionResult(extractedContent)
    /\ pc' = "done"
    /\ UNCHANGED <<html, doc, startElement, endElement, extractedContent, ui>>

\* doc.body || doc.documentElement
Body(t) ==
    LET bodies == SelectSeq(Children(t, 1), LAMBDA c : t[c].tag = "body")
    IN  IF bodies # <<>> THEN bodies[1] ELSE 1

\* the end of the plain convertHtmlToMarkdown (src/js/converter.js)
RenderBody ==
    /\ pc = "sanitized"
    /\ outcome' = [kind |-> "returned", value |-> Trim(processElement(doc, Body(doc)))]
    /\ pc' = "done"
    /\ UNCHANGED <<html, doc, startElement, endElement, extractedContent, ui>>

\* the scoped converter
Next == Sanitize \/ Extract \/ Return

\* the plain converter
NextPlain == Sanitize \/ RenderBody

\* ------------------------------------------------------- the page (UI glue)

\* showStatus(message, type): writes the text and the class, and schedules
\* an auto-hide timeout; the timeouts have one delay, so they fire in the
\* order they were scheduled
ShowStatus(type) ==
    /\ msgs' = msgs + 1
    /\ status' = [msg |-> msgs + 1, type |-> type, show |-> TRUE]
    /\ timers' = Append(timers, msgs + 1)
    /\ UNCHANGED lastHide

\* hideStatus(), called by timer by (0: by processFile)
HideStatus(by) ==
    /\ status' = [status EXCEPT !.show = FALSE]
    /\ lastHide' = IF status.show THEN [msg |-> status.msg, by |-> by] ELSE lastHide

\* room for one more call that ends in showStatus
CanStart == msgs + reads + copies < MaxMessages

handleDragOver ==
    /\ dragOver' = TRUE
    /\ UNCHANGED <<conv, loading, outputShown, status, timers, reads, copies, msgs, lastHide>>

handleDragLeave ==
    /\ dragOver' = FALSE
    /\ UNCHANGED <<conv, loading, outputShown, status, timers, reads, copies, msgs, lastHide>>

\* processFile up to its await: showLoading(true), hideStatus()
ProcessFileStart ==
    /\ loading' = TRUE
    /\ HideStatus(0)
    /\ reads' = reads + 1
    /\ UNCHANGED <<timers, msgs>>

\* handleDrop with an HTML file among the dropped files
handleDropHtml ==
    /\ CanStart
    /\ dragOver' = FALSE
    /\ ProcessFileStart
    /\ UNCHANGED <<conv, outputShown, copies>>

\* handleDrop without an HTML file
handleDropOther ==
    /\ msgs < MaxMessages
    /\ dragOver' = FALSE
    /\ ShowStatus("error")
    /\ UNCHANGED <<conv, loading, outputShown, reads, copies>>

\* handleFileSelect with a file chosen
handleFileSelect ==
    /\ CanStart
    /\ ProcessFileStart
    /\ UNCHANGED <<conv, dragOver, outputShown, copies>>

\* processFile after its await: the conversion returned (the output is
\* shown, success) or the read or the conversion threw (error); finally
\* showLoading(false)
ProcessFileEnd ==
    /\ reads > 0
    /\ reads' = reads - 1
    /\ \E ok \in BOOLEAN :
          /\ outputShown' = (outputShown \/ ok)
          /\ ShowStatus(IF ok THEN "success" ELSE "error")
    /\ loading' = FALSE
    /\ UNCHANGED <<conv, dragOver, copies>>

\* copyToClipboard up to its await
copyToClipboard ==
    /\ CanStart
    /\ copies' = copies + 1
    /\ UNCHANGED <<conv, dragOver, loading, outputShown, status, timers, reads, msgs, lastHide>>

\* copyToClipboard after its await: written (success) or rejected (error)
CopyEnd ==
    /\ copies > 0
    /\ copies' = copies - 1
    /\ \E ok \in BOOLEAN : ShowStatus(IF ok THEN "success" ELSE "error")
    /\ UNCHANGED <<conv, dragOver, loading, outputShown, reads>>

\* the callback of the oldest pending setTimeout: this.hideStatus()
TimerFires ==
    /\ timers # <<>>
    /\ HideStatus(Head(timers))
    /\ timers' = Tail(timers)
    /\ UNCHANGED <<conv, dragOver, loading, outputShown, reads, copies, msgs>>

NextUI ==
    \/ handleDragOver
    \/ handleDragLeave
    \/ handleDropHtml
    \/ handleDropOther
    \/ handleFileSelect
    \/ ProcessFileEnd
    \/ copyToClipboard
    \/ CopyEnd
    \/ TimerFires

\* the page before any file was given: no document parsed yet
InitUI ==
    /\ html = Null
    /\ doc = Null
    /\ pc = "idle"
    /\ startElement = 0
    /\ endElement = 0
    /\ extractedContent = Null
    /\ outcome = NoOutcome
    /\ InitPage

SpecUI == InitUI /\ [][NextUI]_vars

\* ----------------------------------------------------------- specifications

\* scoped conversion of documents with marker texts
RangeKinds ==
    {Elem("div"), Elem("span"), Elem("script"),
     Text(<<"T", ":">>), Text(<<"T">>), Text(<<":">>), Text(<<"P", "S">>),
     Text(<<"Q", "D">>)}

Init == InitWith(Documents({}, RangeKinds, MaxNodes))

Spec == Init /\ [][Next]_vars

\* plain conversion of documents with unwanted elements at any depth
SanitizeHeadKinds ==
    {Elem("meta"), Elem("link"), Elem("style"), Elem("script"), Elem("noscript")}

SanitizeBodyKinds ==
    SanitizeHeadKinds \cup {Elem("div"), Text(<<"x">>)}

InitSanitize == InitWith(Documents(SanitizeHeadKinds, SanitizeBodyKinds, MaxNodes))

SpecSanitize == InitSanitize /\ [][NextPlain]_vars

\* plain conversion of documents with headings
HeadingKinds ==
    {Elem(h) : h \in HeadingTags}
    \cup {Elem("span"), Text(<<"x">>), Text(<<" ">>), Text(<<" ", "x", "\n">>)}

InitHeading == InitWith(Documents({}, HeadingKinds, MaxNodes))

SpecHeading == InitHeading /\ [][NextPlain]_vars

\* plain conversion of documents with links
LinkKinds ==
    {Elem("a"), ElemWith("a", {<<"href", <<>>>>}), ElemWith("a", {<<"href", <<"u">>>>}),
     Elem("span"), Text(<<"x">>), Text(<<" ">>), Text(<<" ", "y">>)}

InitLink == InitWith(Documents({}, LinkKinds, MaxNodes))

SpecLink == InitLink /\ [][NextPlain]_vars

\* plain conversion of documents with images
ImageKinds ==
    {ElemWith("img", {<<"src", <<"s">>>>}),
     ElemWith("img", {<<"src", <<"s">>>>, <<"alt", <<"t">>>>}),
     Elem("img"), Elem("p"), Elem("div"), Elem("li"), Text(<<"x">>)}

InitImage == InitWith(Documents({}, ImageKinds, MaxNodes))

SpecImage == InitImage /\ [][NextPlain]_vars

\* plain conversion of documents with lists
ListKinds == {Elem("ul"), Elem("ol"), Elem("li"), Text(<<"a">>)}

InitList == InitWith(Documents({}, ListKinds, MaxListNodes))

SpecList == InitList /\ [][NextPlain]_vars

\* plain conversion of documents with tables
TableKinds ==
    {Elem("table"), Elem("tbody"), Elem("tr"), Elem("td"), Elem("th"),
     Text(<<"x">>), Text(<<"x", "\n", "y">>)}

InitTable == InitWith(Documents({}, TableKinds, MaxTableNodes))

SpecTable == InitTable /\ [][NextPlain]_vars

\* ------------------------------------------------------------------- claims

Elements(t) == {j \in 1..Len(t) : IsElement(t, j)}

HasStartMarker(t, j) == Includes(TextContent(t, j), StartMarker)
HasEndMarker(t, j) == \E m \in EndMarkers : Includes(TextContent(t, j), m)

Extracted == pc \in {"extracted", "done"}

\* C1 (as claimed): when a start and an end element were found, the
\* container holds no clone of the end element and no clone of a node that
\* follows the end element in document order, at any depth of the container.
C1_HalfOpenSlice ==
    (Extracted /\ startElement # 0 /\ endElement # 0) =>
        \A k \in 2..Len(extractedContent) :
            IndexOf(doc, extractedContent[k].id) < IndexOf(doc, endElement)

\* C2: when no element includes the start marker, or the first element that
\* includes it is followed by no element including an end marker, the
\* conversion returns (does not throw) exactly the warning text.
C2_NoStart == \A j \in Elements(doc) : ~HasStartMarker(doc, j)

C2_NoEndAfterStart ==
    \E s \in Elements(doc) :
        /\ HasStartMarker(doc, s)
        /\ \A j \in Elements(doc) : j < s => ~HasStartMarker(doc, j)
        /\ \A j \in Elements(doc) : j > s => ~HasEndMarker(doc, j)

C2_WarningReturned ==
    (pc = "done" /\ (C2_NoStart \/ C2_NoEndAfterStart)) =>
        outcome = [kind |-> "returned", value |-> Warning]

C2_Witness ==
    /\ pc = "done"
    /\ C2_NoEndAfterStart
    /\ Len(TextContent(doc, 1)) > 2
    /\ outcome.value = Warning

\* C8: once the sanitizer has run, no step changes the document tree, and
\* rendering changes neither the tree nor the extracted container.
C8_TreeUnchangedAfterSanitizer ==
    [][/\ pc # "parsed" => doc' = doc
       /\ pc = "extracted" => extractedContent' = extractedContent]_vars

C8_Witness ==
    /\ pc = "done"
    /\ extractedContent # Null
    /\ Len(extractedContent) > 3
    /\ outcome.kind = "returned"
    /\ doc = removeUnwantedElements(html)

\* C9: the start element is the first element in document order whose text
\* content includes the start marker, and it has no parent element: it is
\* the outermost qualifying element, none is chosen when none qualifies.
C9_OutermostStart ==
    Extracted =>
        IF C2_NoStart THEN startElement = 0
        ELSE LET s == IndexOf(doc, startElement)
             IN  /\ s # 0
                 /\ HasStartMarker(doc, s)
                 /\ \A j \in Elements(doc) : j < s => ~HasStartMarker(doc, j)
                 /\ ~\E j \in Elements(doc) : j < s /\ s <= SubtreeEnd(doc, j)

C9_Witness ==
    /\ Extracted
    /\ startElement # 0
    /\ \E j \in Elements(doc) :
          j > IndexOf(doc, startElement) /\ doc[j].depth > 1 /\ HasStartMarker(doc, j)

\* C3: after the sanitizer no node with an unwanted tag is left at any
\* depth, a second run changes nothing, and the tree is exactly the parsed
\* tree without the unwanted elements and their subtrees, in the same order.
Unwanted == {UnwantedSelectors[k] : k \in 1..Len(UnwantedSelectors)}

C3_Survives(j) ==
    \A a \in 1..j : (j <= SubtreeEnd(html, a)) => html[a].tag \notin Unwanted

C3_Sanitized ==
    pc # "parsed" =>
        /\ \A k \in 1..Len(doc) : doc[k].tag \notin Unwanted
        /\ removeUnwantedElements(doc) = doc
        /\ LET keep == SortedSeq({j \in 1..Len(html) : C3_Survives(j)})
           IN  doc = [k \in 1..Len(keep) |-> html[keep[k]]]

C3_Witness ==
    /\ pc = "sanitized"
    /\ \E j \in 1..Len(html) : html[j].tag \in Unwanted /\ html[j].depth >= 3
    /\ \E j \in 1..Len(html) : html[j].tag \in Unwanted /\ SubtreeEnd(html, j) > j
    /\ Len(doc) > 3

\* C4 (as claimed): every h1..h6 element renders as a newline, level '#'
\* characters, a space, its trimmed text and two newlines.
C4_Expected(t, j) ==
    <<"\n">> \o [k \in 1..HeadingLevel(t[j].tag) |-> "#"] \o <<" ">>
    \o Trim(TextContent(t, j)) \o <<"\n", "\n">>

C4_EveryHeading ==
    \A j \in Elements(doc) :
        doc[j].tag \in HeadingTags =>
            convertElementToMarkdown(doc, j) = C4_Expected(doc, j)

\* C4 (amended): every h1..h6 element whose trimmed text is not empty
\* renders as a newline, level '#' characters, a space, its trimmed text and
\* two newlines; a heading whose trimmed text is empty renders as ''.
C4_HeadingWithText ==
    \A j \in Elements(doc) :
        doc[j].tag \in HeadingTags =>
            convertElementToMarkdown(doc, j) =
                IF Trim(TextContent(doc, j)) # <<>> THEN C4_Expected(doc, j) ELSE <<>>

C4_Witness ==
    /\ pc = "done"
    /\ \E j \in Elements(doc) :
          /\ doc[j].tag = "h3"
          /\ TextContent(doc, j) = <<" ", "x", "\n">>
    /\ outcome.value = <<"#", "#", "#", " ", "x">>

\* C5 (as claimed): an a element with non-empty text renders as
\* [text](href) whenever it has an href attribute, whatever its value, and
\* as its trimmed text alone when it has none.
C5_LinkText(t, j) ==
    <<"[">> \o Trim(TextContent(t, j)) \o <<"]", "(">>
    \o GetAttribute(t, j, "href").str \o <<")">>

C5_HrefPresent ==
    \A j \in Elements(doc) :
        (doc[j].tag = "a" /\ Trim(TextContent(doc, j)) # <<>>) =>
            convertElementToMarkdown(doc, j) =
                IF \E p \in doc[j].attrs : p[1] = "href"
                THEN C5_LinkText(doc, j)
                ELSE Trim(TextContent(doc, j))

\* C5 (amended): an a element with non-empty text renders as [text](href)
\* when it has an href attribute whose value is not empty, and as its
\* trimmed text alone when it has no href attribute or an empty one.
C5_HrefNonEmpty ==
    \A j \in Elements(doc) :
        (doc[j].tag = "a" /\ Trim(TextContent(doc, j)) # <<>>) =>
            convertElementToMarkdown(doc, j) =
                IF \E p \in doc[j].attrs : p[1] = "href" /\ p[2] # <<>>
                THEN C5_LinkText(doc, j)
                ELSE Trim(TextContent(doc, j))

C5_Witness ==
    /\ pc = "done"
    /\ \E j \in Elements(doc) :
          /\ doc[j].tag = "a" /\ doc[j].attrs = {<<"href", <<>>>>}
          /\ TextContent(doc, j) = <<" ", "y">>
    /\ outcome.value = <<"y">>

\* C6: a ul or ol renders one item per direct li child, in document order,
\* joined by single newlines; other children and deeper li elements give no
\* item of their own; a ul item starts with "- ", the k-th ol item with
\* "k. ", and each continues with the trimmed rendering of its li.
C6_DirectItems(t, j) ==
    {c \in (j + 1)..SubtreeEnd(t, j) : Parent(t, c) = j /\ t[c].tag = "li"}

C6_Item(t, j, c) ==
    LET k == Cardinality({d \in C6_DirectItems(t, j) : d <= c})
    IN  (IF t[j].tag = "ol" THEN <<Digit(k), ".", " ">> ELSE <<"-", " ">>)
        \o Trim(processElement(t, c))

RECURSIVE C6_Lines(_, _, _)
C6_Lines(t, j, S) ==
    IF S = {} THEN <<>>
    ELSE LET c == CHOOSE x \in S : \A y \in S : y <= x
         IN  (IF S = {c} THEN <<>> ELSE C6_Lines(t, j, S \ {c}) \o <<"\n">>)
             \o C6_Item(t, j, c)

C6_ListItems ==
    \A j \in Elements(doc) :
        doc[j].tag \in {"ul", "ol"} =>
            /\ processListItems(doc, j, <<"-", " ">>, doc[j].tag = "ol")
                   = C6_Lines(doc, j, C6_DirectItems(doc, j))
            /\ Trim(TextContent(doc, j)) # <<>> =>
                   convertElementToMarkdown(doc, j)
                       = <<"\n">> \o C6_Lines(doc, j, C6_DirectItems(doc, j)) \o <<"\n">>

C6_Witness ==
    /\ pc = "done"
    /\ \E j \in Elements(doc) :
          /\ doc[j].tag = "ol"
          /\ Cardinality(C6_DirectItems(doc, j)) = 2
    /\ outcome.value = <<"1", ".", " ", "a", "\n", "2", ".">>

\* C7: a table with rows renders as a newline, one line per tr in document
\* order, each "| c1 | c2 | ... |" without a newline inside, and a final
\* newline; a separator line "| --- | ... |" with one entry per td/th of
\* the first row follows the first line if and only if the first row holds
\* a th, and stands nowhere else; a table without rows renders as ''.
RECURSIVE C7_Split(_)
C7_Split(s) ==
    IF \A k \in 1..Len(s) : s[k] # "\n" THEN <<s>>
    ELSE LET k == CHOOSE x \in 1..Len(s) : s[x] = "\n" /\ \A y \in 1..(x - 1) : s[y] # "\n"
         IN  <<SubSeq(s, 1, k - 1)>> \o C7_Split(SubSeq(s, k + 1, Len(s)))

C7_Separator(n) ==
    <<"|">> \o [k \in 1..(6 * n) |-> <<" ", "-", "-", "-", " ", "|">>[((k - 1) % 6) + 1]]

C7_IsSeparator(line) == \E n \in 1..Len(line) : line = C7_Separator(n)

C7_Rows(t, j) == {r \in (j + 1)..SubtreeEnd(t, j) : t[r].tag = "tr"}

C7_Cells(t, r) == {c \in (r + 1)..SubtreeEnd(t, r) : t[c].tag \in {"td", "th"}}

RECURSIVE C7_CellTexts(_, _)
C7_CellTexts(t, S) ==
    IF S = {} THEN <<>>
    ELSE LET c == CHOOSE x \in S : \A y \in S : y <= x
             content == Trim(processElement(t, c))
         IN  (IF S = {c} THEN <<>> ELSE C7_CellTexts(t, S \ {c}) \o <<" ", "|", " ">>)
             \o [k \in 1..Len(content) |-> IF content[k] = "\n" THEN " " ELSE content[k]]

C7_RowLine(t, r) == <<"|", " ">> \o C7_CellTexts(t, C7_Cells(t, r)) \o <<" ", "|">>

C7_TableOk(t, j) ==
    LET out == processTable(t, j)
        rows == SortedSeq(C7_Rows(t, j))
        lines == C7_Split(out)
    IN  IF rows = <<>> THEN out = <<>>
        ELSE LET hasTh == \E c \in C7_Cells(t, rows[1]) : t[c].tag = "th"
                 sep == IF hasTh THEN 1 ELSE 0
             IN  /\ Len(lines) = Len(rows) + sep + 3
                 /\ lines[1] = <<>>
                 /\ lines[Len(lines)] = <<>>
                 /\ lines[Len(lines) - 1] = <<>>
                 /\ lines[2] = C7_RowLine(t, rows[1])
                 /\ \A k \in 2..Len(rows) : lines[k + sep + 1] = C7_RowLine(t, rows[k])
                 /\ hasTh => lines[3] = C7_Separator(Cardinality(C7_Cells(t, rows[1])))
                 /\ \A k \in 2..(Len(lines) - 2) :
                        C7_IsSeparator(lines[k]) <=> (hasTh /\ k = 3)

C7_TableLines ==
    \A j \in Elements(doc) : doc[j].tag = "table" => C7_TableOk(doc, j)

C7_Witness ==
    /\ pc = "done"
    /\ \E j \in Elements(doc) :
          /\ doc[j].tag = "table"
          /\ Cardinality(C7_Rows(doc, j)) = 2
    /\ outcome.value = <<"|", " ", "x", " ", "y", " ", "|", "\n",
                         "|", " ", "-", "-", "-", " ", "|", "\n",
                         "|", " ", " ", "|">>

\* C10 (as claimed): after a conversion, the Markdown holds ![alt](src) for
\* every img with a non-empty src that lies in the converted tree below
\* elements rendered by recursion only, whatever text those elements hold.
RecursedTags == {"p", "blockquote", "li", "div", "span", "section", "article"}

C10_ImageText(t, j) ==
    <<"!", "[">> \o GetAttribute(t, j, "alt").str \o <<"]", "(">>
    \o GetAttribute(t, j, "src").str \o <<")">>

C10_ImagesRender ==
    pc = "done" =>
        \A j \in Elements(doc) :
            (/\ doc[j].tag = "img"
             /\ GetAttribute(doc, j, "src").str # <<>>
             /\ j > Body(doc)
             /\ \A a \in (Body(doc) + 1)..(j - 1) :
                    j <= SubtreeEnd(doc, a) => doc[a].tag \in RecursedTags)
            => Includes(outcome.value, C10_ImageText(doc, j))

\* C11: when a start and an end element were found, the container is not
\* null and has at least one child; its first child is a deep clone of the
\* start element, every child is a deep clone of an element of the document
\* and the children stand in document order; and the conversion returns the
\* warning only when a marker was not found.
C11_ChildSource(k) == IndexOf(doc, extractedContent[k].id)

C11_IsDeepClone(k) ==
    LET i == C11_ChildSource(k)
    IN  /\ i # 0
        /\ SubtreeEnd(extractedContent, k) - k = SubtreeEnd(doc, i) - i
        /\ \A n \in 0..(SubtreeEnd(doc, i) - i) :
              /\ extractedContent[k + n].id = doc[i + n].id
              /\ extractedContent[k + n].tag = doc[i + n].tag
              /\ extractedContent[k + n].text = doc[i + n].text
              /\ extractedContent[k + n].attrs = doc[i + n].attrs
              /\ extractedContent[k + n].depth - 1 = doc[i + n].depth - doc[i].depth

C11_NonEmptyRange ==
    /\ (Extracted /\ startElement # 0 /\ endElement # 0) =>
          /\ extractedContent # Null
          /\ LET kids == Children(extractedContent, 1)
             IN  /\ Len(kids) >= 1
                 /\ extractedContent[kids[1]].id = startElement
                 /\ \A n \in 1..Len(kids) : C11_IsDeepClone(kids[n])
                 /\ \A n \in 1..(Len(kids) - 1) :
                        C11_ChildSource(kids[n]) < C11_ChildSource(kids[n + 1])
    /\ (pc = "done" /\ outcome.value = Warning) =>
          (startElement = 0 \/ endElement = 0)

C11_Witness ==
    /\ pc = "done"
    /\ startElement # 0
    /\ endElement # 0
    /\ Len(extractedContent) > 4
    /\ outcome.kind = "returned"
    /\ outcome.value # Warning

\* C12 (as claimed): a shown status message loses the class show only
\* through the timer scheduled by the showStatus call that showed it, or
\* through the hideStatus of a later processFile: never through the timer
\* of an earlier message.
C12_OwnTimerOnly ==
    lastHide.by # 0 => lastHide.by = lastHide.msg

=============================================================================
